---------------------------- MODULE Spec2Model ----------------------------
(***************************************************************************)
(* Verification model of pydreamer's generator.py: the rollout loop of     *)
(* main with its episode buffer and shard naming, count_steps, the BFS     *)
(* planner find_shortest and the MazeDijkstraPolicy that drives it.        *)
(*                                                                         *)
(* Lengths are held as integers in units of 1/Scale (tenths), headings in  *)
(* whole degrees.  File names are sequences of one-character strings.      *)
(***************************************************************************)
EXTENDS Integers, Sequences, FiniteSets, TLC

VARIABLES
    pc,            \* position of main: "init", "loop", "episode", "finish", "done", "error"
    conf,          \* main's arguments: seed, num_steps, env_max_steps, steps_per_npz
    artifact_dir,  \* the names of the *.npz files of the artifact directory
    steps,         \* main's steps counter
    episodes,      \* main's episodes counter
    datas,         \* main's buffer of completed episodes
    epsteps,       \* main's per-episode step counter
    env,           \* the wrapped environment: CollectWrapper._episode, ActionRewardResetWrapper._epstep, last done/info
    shards,        \* history: the shards written by this run, in order (name, data, pc at the write)
    hist,          \* history: the directory at startup, what count_steps returned, the episodes of this run
    srch,          \* find_shortest: its arguments and locals (que, que_ix, visited, parent, parent_action, goal_state)
    plan,          \* find_shortest: position and returned (actions, path, nvis)
    pol,           \* MazeDijkstraPolicy: _goal, _expected_pos, position inside __call__
    call           \* the observation of the current policy call, what it returned, and its history flags

genVars  == <<pc, conf, artifact_dir, steps, episodes, datas, epsteps, env, shards, hist>>
planVars == <<srch, plan>>
polVars  == <<pol, call>>
vars     == <<pc, conf, artifact_dir, steps, episodes, datas, epsteps, env, shards, hist,
              srch, plan, pol, call>>

None == "None"

Max(a, b) == IF a >= b THEN a ELSE b
Abs(a) == IF a >= 0 THEN a ELSE -a

RECURSIVE SumSeq(_)
SumSeq(s) == IF s = <<>> THEN 0 ELSE Head(s) + SumSeq(Tail(s))

RECURSIVE Concat(_)
Concat(ss) == IF ss = <<>> THEN <<>> ELSE Head(ss) \o Concat(Tail(ss))

(***************************************************************************)
(* Strings: Python's str operations used by main and count_steps.          *)
(***************************************************************************)
Digits == <<"0", "1", "2", "3", "4", "5", "6", "7", "8", "9">>

\* The characters that occur, in code point order (sorted() compares by code point).
Alphabet == <<"-", ".", "0", "1", "2", "3", "4", "5", "6", "7", "8", "9", "_",
              "a", "b", "c", "d", "e", "f", "j", "k", "l", "n", "o", "p", "s",
              "t", "u", "v", "z">>

Ord(c) == CHOOSE i \in 1..Len(Alphabet) : Alphabet[i] = c

IsDigit(c) == \E i \in 1..10 : Digits[i] = c
DigitVal(c) == (CHOOSE i \in 1..10 : Digits[i] = c) - 1

\* str(n) of an int
RECURSIVE Str(_)
Str(n) == IF n < 0 THEN <<"-">> \o Str(-n)
          ELSE IF n < 10 THEN <<Digits[n + 1]>>
          ELSE Str(n \div 10) \o <<Digits[(n % 10) + 1]>>

Zeros(k) == [i \in 1..k |-> "0"]

\* f'{n:0w}' of a non-negative int: zero-padded to at least w characters
Pad(n, w) == LET s == Str(n) IN IF Len(s) >= w THEN s ELSE Zeros(w - Len(s)) \o s

\* s.split(c)
RECURSIVE Split(_, _)
Split(s, c) ==
    IF \A i \in 1..Len(s) : s[i] # c THEN <<s>>
    ELSE LET k == CHOOSE i \in 1..Len(s) : s[i] = c /\ \A j \in 1..(i - 1) : s[j] # c
         IN <<SubSeq(s, 1, k - 1)>> \o Split(SubSeq(s, k + 1, Len(s)), c)

\* s.replace('ep', '')
RECURSIVE ReplaceEp(_)
ReplaceEp(s) ==
    IF Len(s) < 2 THEN s
    ELSE IF s[1] = "e" /\ s[2] = "p" THEN ReplaceEp(SubSeq(s, 3, Len(s)))
    ELSE <<s[1]>> \o ReplaceEp(Tail(s))

\* s.isnumeric()
IsNumeric(s) == Len(s) > 0 /\ \A i \in 1..Len(s) : IsDigit(s[i])

\* int(s) of a numeric string
RECURSIVE ToInt(_)
ToInt(s) == IF s = <<>> THEN 0 ELSE 10 * ToInt(SubSeq(s, 1, Len(s) - 1)) + DigitVal(s[Len(s)])

\* a < b as Python compares str (and so Path names)
RECURSIVE LexLess(_, _)
LexLess(a, b) ==
    IF b = <<>> THEN FALSE
    ELSE IF a = <<>> THEN TRUE
    ELSE IF Head(a) # Head(b) THEN Ord(Head(a)) < Ord(Head(b))
    ELSE LexLess(Tail(a), Tail(b))

\* sorted(files)
RECURSIVE Sorted(_)
Sorted(S) ==
    IF S = {} THEN <<>>
    ELSE LET m == CHOOSE x \in S : \A y \in S \ {x} : LexLess(x, y)
         IN <<m>> \o Sorted(S \ {m})


(***************************************************************************)
(* count_steps                                                             *)
(***************************************************************************)
\* Mutant of CountFile: episodes = max(episodes, int(sepisode)), the + 1 forgotten
CountFile_NoPlusOne(r, name) ==
    LET toks  == Split(Split(name, ".")[1], "-")
        sstep == toks[Len(toks)]
        r1    == IF IsNumeric(sstep) THEN [r EXCEPT !.steps = @ + ToInt(sstep)] ELSE r
    IN  IF Len(toks) < 2 THEN [r1 EXCEPT !.error = TRUE]
        ELSE LET parts    == Split(ReplaceEp(toks[Len(toks) - 1]), "_")
                 sepisode == parts[Len(parts)]
             IN  IF IsNumeric(sepisode)
                 THEN [r1 EXCEPT !.episodes = Max(@, ToInt(sepisode))]
                 ELSE r1

\* The loop body of count_steps for one file name, on the running result r.
\* A name with a single '-'-separated token has no [-2]: IndexError.
CountFile(r, name) ==
    LET toks  == Split(Split(name, ".")[1], "-")
        sstep == toks[Len(toks)]
        r1    == IF IsNumeric(sstep) THEN [r EXCEPT !.steps = @ + ToInt(sstep)] ELSE r
    IN  IF Len(toks) < 2 THEN [r1 EXCEPT !.error = TRUE]
        ELSE LET parts    == Split(ReplaceEp(toks[Len(toks) - 1]), "_")
                 sepisode == parts[Len(parts)]
             IN  IF IsNumeric(sepisode)
                 THEN [r1 EXCEPT !.episodes = Max(@, ToInt(sepisode) + 1)]
                 ELSE r1

RECURSIVE CountLoop(_, _)
CountLoop(r, files) ==
    IF files = <<>> \/ r.error THEN r
    ELSE CountLoop(CountFile(r, Head(files)), Tail(files))

\* count_steps(artifact_dir), the glob having listed the files as `listing`
count_steps(listing) ==
    CountLoop([steps |-> 0, episodes |-> 0, error |-> FALSE],
              Sorted({listing[i] : i \in 1..Len(listing)}))

\* The orders in which glob may list the files of a directory
Listings(dir) ==
    {l \in [1..Cardinality(dir) -> dir] : \A i, j \in 1..Cardinality(dir) : l[i] = l[j] => i = j}

(***************************************************************************)
(* Shard names                                                             *)
(***************************************************************************)
\* f's{seed}-ep{first:06}_{last:06}-{datas_steps:04}.npz'
FNameMulti(seed, first, last, dsteps) ==
    <<"s">> \o Str(seed) \o <<"-", "e", "p">> \o Pad(first, 6) \o <<"_">> \o Pad(last, 6)
        \o <<"-">> \o Pad(dsteps, 4) \o <<".", "n", "p", "z">>

\* f's{seed}-ep{episodes-1:06}-{datas_steps:04}.npz'
FNameSingle(seed, last, dsteps) ==
    <<"s">> \o Str(seed) \o <<"-", "e", "p">> \o Pad(last, 6)
        \o <<"-">> \o Pad(dsteps, 4) \o <<".", "n", "p", "z">>

\* Mutant of FName: the indices taken as if episodes had not yet been incremented
FName_NotYetIncremented(seed, eps, datas_episodes, datas_steps) ==
    IF datas_episodes > 1
    THEN FNameMulti(seed, eps - datas_episodes + 1, eps, datas_steps)
    ELSE FNameSingle(seed, eps, datas_steps)

\* The name main gives a shard of datas_episodes episodes and datas_steps steps
FName(seed, eps, datas_episodes, datas_steps) ==
    IF datas_episodes > 1
    THEN FNameMulti(seed, eps - datas_episodes, eps - 1, datas_steps)
    ELSE FNameSingle(seed, eps - 1, datas_steps)

(***************************************************************************)
(* The environment wrappers                                                *)
(***************************************************************************)
\* The discrete actions
TURN_LEFT  == 0
TURN_RIGHT == 1
FORWARD    == 2

\* env.action_space.n
ActionSize == 3

\* np.zeros(self._action_size)
ZeroAction == [i \in 0..(ActionSize - 1) |-> 0]

\* action_onehot of an int action
OneHot(action) == [i \in 0..(ActionSize - 1) |-> IF i = action THEN 1 ELSE 0]

\* Mutant of EnvReset: the reset observation appended to the episode collected so far
EnvReset_KeepsEpisode(n) ==
    LET obs == [ep |-> n, t |-> 0, action |-> ZeroAction, terminal |-> FALSE, reset |-> TRUE]
    IN  [episode |-> Append(env.episode, obs), epstep |-> 0, done |-> FALSE, info |-> None]

\* ActionRewardResetWrapper.reset then CollectWrapper.reset.  The inner environment's
\* observation is held as its identity: episode number n of the run, step t.
EnvReset(n) ==
    LET obs == [ep |-> n, t |-> 0, action |-> ZeroAction, terminal |-> FALSE, reset |-> TRUE]
    IN  [episode |-> <<obs>>, epstep |-> 0, done |-> FALSE, info |-> None]

\* Mutant of EpisodeOf: the episode assembled without the observation of the done step
EpisodeOf_WithoutLast(episode) == SubSeq(episode, 1, Len(episode) - 1)

\* info['episode'] of CollectWrapper.step once done: every field stacked over _episode
EpisodeOf(episode) == episode

\* ActionRewardResetWrapper.step then CollectWrapper.step; `done` is what the inner
\* environment reports
EnvStep(e, action, done, max_steps) ==
    LET epstep == e.epstep + 1
        obs == [ep |-> e.episode[1].ep, t |-> epstep, action |-> OneHot(action),
                terminal |-> IF epstep < max_steps THEN done ELSE FALSE,
                reset |-> FALSE]
        episode == Append(e.episode, obs)
    IN  [episode |-> episode, epstep |-> epstep, done |-> done,
         info |-> IF done THEN EpisodeOf(episode) ELSE None]


(***************************************************************************)
(* main: the rollout loop                                                  *)
(***************************************************************************)
\* Bounds of the rollout model
NumSteps       == 7    \* largest num_steps
EnvMaxSteps    == 3    \* env_max_steps, the per-episode step cap
MaxStepsPerNpz == 3    \* largest steps_per_npz
MaxFiles       == 2    \* most files in the artifact directory at startup

Seeds == {0, 12}

\* Names main's naming scheme produces (single- and multi-episode), of two seeds
SchemeShards ==
    { [seed |-> 0,  eps |-> 1,  n |-> 1, steps |-> 3],
      [seed |-> 0,  eps |-> 3,  n |-> 2, steps |-> 2],
      [seed |-> 12, eps |-> 2,  n |-> 1, steps |-> 1],
      [seed |-> 12, eps |-> 12, n |-> 2, steps |-> 5] }

SchemeNames == { FName(f.seed, f.eps, f.n, f.steps) : f \in SchemeShards }

\* Other *.npz names: no numeric token; a numeric episode token (7) only; no '-' at all
NoNumberName == <<"n", "o", "t", "e", "s", "-", "e", "p", "_", "a", "-", "v", "2", ".", "n", "p", "z">>
EpisodeOnlyName ==
    <<"s", "0", "-", "e", "p", "0", "0", "0", "0", "0", "7", "-", "b", "a", "k", ".", "n", "p", "z">>
NoDashName == <<"j", "u", "n", "k", ".", "n", "p", "z">>

ForeignNames == {NoNumberName, EpisodeOnlyName, NoDashName}

InitDirs == {d \in SUBSET (SchemeNames \cup ForeignNames) : Cardinality(d) <= MaxFiles}

\* conf.model: the policy holds a learned model (model is not None); the policies
\* of the rollout above have none
Confs == [seed : Seeds, num_steps : {NumSteps - 4, NumSteps}, env_max_steps : {EnvMaxSteps},
          steps_per_npz : 1..MaxStepsPerNpz, model : {FALSE}]

\* What the policy of the rollout returns (its choice does not enter the bookkeeping)
RolloutActions == {FORWARD}

\* hist.ep_lens[k]: the steps of the k-th episode this run completed;
\* hist.model_step: model_step = 0 until a checkpoint has been loaded
NoHist == [dir0 |-> {}, steps0 |-> 0, episodes0 |-> 0, ep_lens |-> <<>>, model_step |-> 0]

NoEnv == [episode |-> <<>>, epstep |-> 0, done |-> FALSE, info |-> None]

\* Mutant of DatasSteps: the reset entry counted as a step, sum(len(d['reset']) for d in datas)
DatasSteps_WithReset(ds) == SumSeq([i \in 1..Len(ds) |-> Len(ds[i])])

\* sum(len(d['reset']) - 1 for d in datas)
DatasSteps(ds) == SumSeq([i \in 1..Len(ds) |-> Len(ds[i]) - 1])

\* Mutant of FlushDue: strictly above the threshold
FlushDue_Strict(datas_steps, steps_per_npz) == datas_steps > steps_per_npz

\* if datas_steps >= steps_per_npz
FlushDue(datas_steps, steps_per_npz) == datas_steps >= steps_per_npz

\* np.concatenate([b[key] for b in datas], axis=0), for every key
ConcatDatas(ds) == Concat(ds)

\* steps, episodes = count_steps(artifact_dir); datas = []
Startup ==
    /\ pc = "init"
    /\ \E listing \in Listings(artifact_dir) :
          LET r == count_steps(listing) IN
          IF r.error
          THEN /\ pc' = "error"
               /\ UNCHANGED <<steps, episodes>>
               /\ hist' = [hist EXCEPT !.dir0 = artifact_dir]
          ELSE /\ pc' = "loop"
               /\ steps' = r.steps
               /\ episodes' = r.episodes
               /\ hist' = [hist EXCEPT !.dir0 = artifact_dir, !.steps0 = r.steps,
                                         !.episodes0 = r.episodes]
    /\ datas' = <<>>
    /\ UNCHANGED <<conf, artifact_dir, epsteps, env, shards, srch, plan, pol, call>>

\* while steps < num_steps: if model is not None: if time.time() - last_model_load >
\* model_reload_interval.  last_model_load starts at 0, so the reload is due on the
\* first pass; after a load it is due whenever the clock says so.
BeginReload ==
    /\ pc = "loop"
    /\ steps < conf.num_steps
    /\ conf.model
    /\ pc' = "reload"
    /\ UNCHANGED <<conf, artifact_dir, steps, episodes, datas, epsteps, env, shards, hist,
                   srch, plan, pol, call>>

\* model_step = mlflow_load_checkpoint(policy.model); if model_step: ... break
CheckpointFound ==
    /\ pc = "reload"
    /\ hist' = [hist EXCEPT !.model_step = 1]
    /\ pc' = "ready"
    /\ UNCHANGED <<conf, artifact_dir, steps, episodes, datas, epsteps, env, shards,
                   srch, plan, pol, call>>

\* else: print('Generator model checkpoint not found, waiting...'); time.sleep(10),
\* and the `while True` takes its next pass
CheckpointMissing ==
    /\ pc = "reload"
    /\ UNCHANGED vars

\* Mutant of BeginEpisode: the loop condition as `while steps <= num_steps`
BeginEpisode_UntilReached ==
    /\ pc \in {"loop", "ready"}
    /\ (pc = "loop") => (steps <= conf.num_steps /\ (conf.model => hist.model_step # 0))
    /\ epsteps' = 0
    /\ env' = EnvReset(Len(hist.ep_lens))
    /\ UNCHANGED hist
    /\ pc' = "episode"
    /\ UNCHANGED <<conf, artifact_dir, steps, episodes, datas, shards, srch, plan, pol, call>>

\* while steps < num_steps: ... epsteps = 0; obs = env.reset(); done = False.
\* The episode starts straight from the loop condition when no reload is due (no
\* model, or a checkpoint loaded not long ago), or after the reload.
BeginEpisode ==
    /\ pc \in {"loop", "ready"}
    /\ (pc = "loop") => (steps < conf.num_steps /\ (conf.model => hist.model_step # 0))
    /\ epsteps' = 0
    /\ env' = EnvReset(Len(hist.ep_lens))
    /\ UNCHANGED hist
    /\ pc' = "episode"
    /\ UNCHANGED <<conf, artifact_dir, steps, episodes, datas, shards, srch, plan, pol, call>>

\* the while condition fails: print(f'Generator {seed} done.')
Finish ==
    /\ pc = "loop"
    /\ ~(steps < conf.num_steps)
    /\ pc' = "done"
    /\ UNCHANGED <<conf, artifact_dir, steps, episodes, datas, epsteps, env, shards, hist,
                   srch, plan, pol, call>>

\* One pass of `while not done`.  The inner environment ends the episode when it
\* likes, and at the latest at its max_steps.
RolloutStep ==
    /\ pc = "episode"
    /\ \E action \in RolloutActions, d \in BOOLEAN :
          /\ (env.epstep + 1 >= conf.env_max_steps) => d
          /\ env' = EnvStep(env, action, d, conf.env_max_steps)
          /\ pc' = IF d THEN "finish" ELSE "episode"
          /\ hist' = IF d THEN [hist EXCEPT !.ep_lens = Append(@, epsteps + 1)] ELSE hist
    /\ steps' = steps + 1
    /\ epsteps' = epsteps + 1
    /\ UNCHANGED <<conf, artifact_dir, episodes, datas, shards, srch, plan, pol, call>>

\* After the episode: episodes += 1; datas.append(data); the flush when it is due
EndEpisode ==
    /\ pc = "finish"
    /\ LET eps            == episodes + 1
           ds             == Append(datas, env.info)
           datas_episodes == Len(ds)
           datas_steps    == DatasSteps(ds)
       IN  /\ episodes' = eps
           /\ IF FlushDue(datas_steps, conf.steps_per_npz)
              THEN LET fname == FName(conf.seed, eps, datas_episodes, datas_steps)
                   IN  /\ datas' = <<>>
                       /\ artifact_dir' = artifact_dir \cup {fname}
                       /\ shards' = Append(shards, [name |-> fname, data |-> ConcatDatas(ds)])
              ELSE /\ datas' = ds
                   /\ UNCHANGED <<artifact_dir, shards>>
    /\ pc' = "loop"
    /\ UNCHANGED <<conf, steps, epsteps, env, hist, srch, plan, pol, call>>

PlanIdle == [at |-> "off"]
PolIdle  == [at |-> "off"]

InitGen ==
    /\ pc = "init"
    /\ conf \in Confs
    /\ artifact_dir \in InitDirs
    /\ steps = 0
    /\ episodes = 0
    /\ datas = <<>>
    /\ epsteps = 0
    /\ env = NoEnv
    /\ shards = <<>>
    /\ hist = NoHist
    /\ srch = PlanIdle /\ plan = PlanIdle
    /\ pol = PolIdle /\ call = PolIdle

NextGen == Startup \/ BeginEpisode \/ RolloutStep \/ EndEpisode \/ Finish

SpecGen == InitGen /\ [][NextGen]_vars


(***************************************************************************)
(* find_shortest                                                           *)
(*                                                                         *)
(* x and y are held in units of 1/Scale, headings in whole degrees.  The   *)
(* model covers headings and turn sizes that are multiples of 90 degrees,  *)
(* where cos and sin are -1, 0 or 1.                                       *)
(***************************************************************************)
Scale  == 1000
WALL   == 2
EMPTY  == 1
KPREC  == 5
RADIUS == 200          \* 0.2
VisitedCap == 100000   \* assert len(visited) < 100000

\* round(num / den) for den > 0: to the nearest integer, a tie to the even one
RoundHalfEven(num, den) ==
    LET q == num \div den
        r == num - q * den
    IN  IF 2 * r < den THEN q
        ELSE IF 2 * r > den THEN q + 1
        ELSE IF q % 2 = 0 THEN q ELSE q + 1

\* Mutant of Round5: KPREC taken as a number of decimal digits, round(v, KPREC)
Round5_Decimals(v, unit) == (RoundHalfEven(v * 100000, unit) * unit) \div 100000

\* Mutant of Round5: the division by KPREC forgotten
Round5_NoDivide(v, unit) == RoundHalfEven(v * KPREC, unit) * unit

\* round(v * KPREC) / KPREC of a value held in units of 1/unit
Round5(v, unit) == (RoundHalfEven(v * KPREC, unit) * unit) \div KPREC

\* Mutant of KeyOf: the heading left out of the key
KeyOf_NoHeading(p) == <<Round5(p[1], Scale), Round5(p[2], Scale), 0>>

\* key = (round(x * KPREC) / KPREC, round(y * KPREC) / KPREC, round(d * KPREC) / KPREC)
KeyOf(p) == <<Round5(p[1], Scale), Round5(p[2], Scale), Round5(p[3], 1)>>

\* np.cos(d / 180 * np.pi) and np.sin(d / 180 * np.pi), d a multiple of 90
CosDeg(d) == CASE d % 360 = 0 -> 1 [] d % 360 = 180 -> -1 [] OTHER -> 0
SinDeg(d) == CASE d % 360 = 90 -> 1 [] d % 360 = 270 -> -1 [] OTHER -> 0

\* int(v) of a value >= 0
IntOf(v) == v \div Scale

\* d1 = d - turn_size; if d1 < -180.0: d1 += 360.0
TurnLeft(d, turn_size) == IF d - turn_size < -180 THEN d - turn_size + 360 ELSE d - turn_size

\* d1 = d + turn_size; if d1 > 180.0: d1 -= 360.0
TurnRight(d, turn_size) == IF d + turn_size > 180 THEN d + turn_size - 360 ELSE d + turn_size

\* One corner probe of the wall check
Blocked(map, x2, y2) ==
    \/ x2 < 0 \/ y2 < 0
    \/ x2 >= map.shape[1] * Scale \/ y2 >= map.shape[2] * Scale
    \/ map.cells[<<IntOf(x2), IntOf(y2)>>] = WALL

\* The forward move from (x, y, d): back to (x, y) when one of the 4 corners is blocked
Forward(map, p, step_size) ==
    LET x1 == p[1] + step_size * CosDeg(p[3])
        y1 == p[2] + step_size * SinDeg(p[3])
    IN  IF \/ Blocked(map, x1 - RADIUS, y1 - RADIUS) \/ Blocked(map, x1 + RADIUS, y1 - RADIUS)
           \/ Blocked(map, x1 - RADIUS, y1 + RADIUS) \/ Blocked(map, x1 + RADIUS, y1 + RADIUS)
        THEN p
        ELSE <<x1, y1, p[3]>>

\* p1 = (x1, y1, d1) of one action
Move(map, p, action, step_size, turn_size) ==
    CASE action = TURN_LEFT  -> <<p[1], p[2], TurnLeft(p[3], turn_size)>>
      [] action = TURN_RIGHT -> <<p[1], p[2], TurnRight(p[3], turn_size)>>
      [] action = FORWARD    -> Forward(map, p, step_size)

\* Mutant of AtGoal: the position rounded instead of truncated
AtGoal_Rounded(p, goal) ==
    RoundHalfEven(p[1], Scale) = goal[1] /\ RoundHalfEven(p[2], Scale) = goal[2]

\* if int(x) == int(gx) and int(y) == int(gy)
AtGoal(p, goal) == IntOf(p[1]) = goal[1] /\ IntOf(p[2]) = goal[2]

\* Mutant of NotVisited: the visited check dropped
NotVisited_Always(key, visited) == TRUE

\* if key not in visited
NotVisited(key, visited) == key \notin visited

\* The locals of find_shortest before its while loop
SearchInit(map, start, goal, step_size, turn_size) ==
    [map |-> map, start |-> start, goal |-> goal, step_size |-> step_size,
     turn_size |-> turn_size,
     que |-> <<start>>, que_ix |-> 0, visited |-> {KeyOf(start)},
     parent |-> <<>>, parent_action |-> <<>>, goal_state |-> None, runaway |-> FALSE]

\* Mutant of Expand: visited[key] = True forgotten
Expand_NoMark(s, p, action) ==
    LET p1  == Move(s.map, p, action, s.step_size, s.turn_size)
        key == KeyOf(p1)
    IN  IF s.runaway \/ ~NotVisited(key, s.visited) THEN s
        ELSE [s EXCEPT !.que = Append(@, p1),
                       !.parent = (p1 :> p) @@ @,
                       !.parent_action = (p1 :> action) @@ @]

\* The body of `for action in range(3)` for one action, from the dequeued p
Expand(s, p, action) ==
    LET p1  == Move(s.map, p, action, s.step_size, s.turn_size)
        key == KeyOf(p1)
    IN  IF s.runaway \/ ~NotVisited(key, s.visited) THEN s
        ELSE [s EXCEPT !.que = Append(@, p1),
                       !.parent = (p1 :> p) @@ @,
                       !.parent_action = (p1 :> action) @@ @,
                       !.visited = @ \cup {key},
                       !.runaway = ~(Cardinality(s.visited \cup {key}) < VisitedCap)]

\* One pass of `while que_ix < len(que)`
SearchStep(s) ==
    LET p  == s.que[s.que_ix + 1]
        s0 == [s EXCEPT !.que_ix = @ + 1]
    IN  IF AtGoal(p, s.goal) THEN [s0 EXCEPT !.goal_state = p]
        ELSE Expand(Expand(Expand(s0, p, TURN_LEFT), p, TURN_RIGHT), p, FORWARD)

\* The while loop is over: exhausted, left by break, or stopped by the assertion
SearchOver(s) == s.goal_state # None \/ ~(s.que_ix < Len(s.que)) \/ s.runaway

RECURSIVE RunSearch(_)
RunSearch(s) == IF SearchOver(s) THEN s ELSE RunSearch(SearchStep(s))

\* Mutant of Walk: path.reverse() and actions.reverse() forgotten
RECURSIVE Walk_NotReversed(_, _)
Walk_NotReversed(s, p) ==
    IF p \in DOMAIN s.parent_action
    THEN LET w == Walk_NotReversed(s, s.parent[p])
         IN  [path |-> <<p>> \o w.path, actions |-> <<s.parent_action[p]>> \o w.actions,
              last |-> w.last]
    ELSE [path |-> <<>>, actions |-> <<>>, last |-> p]

\* while p in parent_action: path.append(p); actions.append(parent_action[p]); p = parent[p]
\* (the lists come out reversed; `last` is the p the walk ends on)
RECURSIVE Walk(_, _)
Walk(s, p) ==
    IF p \in DOMAIN s.parent_action
    THEN LET w == Walk(s, s.parent[p])
         IN  [path |-> Append(w.path, p), actions |-> Append(w.actions, s.parent_action[p]),
              last |-> w.last]
    ELSE [path |-> <<>>, actions |-> <<>>, last |-> p]

\* What find_shortest returns from the state its loop ended in
Result(s) ==
    IF s.goal_state # None
    THEN LET w == Walk(s, s.goal_state)
         IN  [actions |-> w.actions, path |-> w.path, nvis |-> Cardinality(s.visited),
              last |-> w.last]
    ELSE [actions |-> <<>>, path |-> <<>>, nvis |-> Cardinality(s.visited), last |-> None]

find_shortest(map, start, goal, step_size, turn_size) ==
    Result(RunSearch(SearchInit(map, start, goal, step_size, turn_size)))

\* Bound of the planner model: the maps are GridSize x GridSize
GridSize == 3

CellsOf(n) == (0..(n - 1)) \X (0..(n - 1))

Cells == CellsOf(GridSize)

NeighboursOf(n, c) ==
    {m \in CellsOf(n) : Abs(m[1] - c[1]) + Abs(m[2] - c[2]) = 1}

Neighbours(c) == NeighboursOf(GridSize, c)

MapOfSize(n, walls) ==
    [shape |-> <<n, n>>,
     cells |-> [c \in CellsOf(n) |-> IF c \in walls THEN WALL ELSE EMPTY]]

MapOf(walls) == MapOfSize(GridSize, walls)

\* The obstacle-free map, and the maps with one cell walled in on its four sides
OpenMap == MapOf({})
Maps == {OpenMap} \cup {MapOf(Neighbours(c)) : c \in Cells}

NonWall(map) == {c \in DOMAIN map.cells : map.cells[c] # WALL}

Headings == {-90, 0, 90, 180}
StepSizes == {Scale}       \* step_size 1.0
TurnSizes == {90}

Centre(c, d) == <<c[1] * Scale + Scale \div 2, c[2] * Scale + Scale \div 2, d>>

\* Start poses: the centre of a cell that is no wall, in each heading
Starts(map) == {Centre(c, d) : c \in NonWall(map), d \in Headings}

\* One pass of the while loop of find_shortest
PlanSearch ==
    /\ plan.at = "search"
    /\ ~SearchOver(srch)
    /\ srch' = SearchStep(srch)
    /\ UNCHANGED <<plan, genVars, polVars>>

\* The loop is over: build path and actions, return
PlanReturn ==
    /\ plan.at = "search"
    /\ SearchOver(srch)
    /\ plan' = [at |-> "done"] @@ Result(srch)
    /\ UNCHANGED <<srch, genVars, polVars>>

GenIdle ==
    /\ pc = "off" /\ conf = None /\ artifact_dir = {} /\ steps = 0 /\ episodes = 0
    /\ datas = <<>> /\ epsteps = 0 /\ env = NoEnv /\ shards = <<>> /\ hist = NoHist

InitPlan ==
    /\ \E map \in Maps, step_size \in StepSizes, turn_size \in TurnSizes :
         \E start \in Starts(map), goal \in Cells :
            srch = SearchInit(map, start, goal, step_size, turn_size)
    /\ plan = [at |-> "search"]
    /\ pol = PolIdle /\ call = PolIdle
    /\ GenIdle

NextPlan == PlanSearch \/ PlanReturn

SpecPlan == InitPlan /\ [][NextPlan]_vars


(***************************************************************************)
(* MazeDijkstraPolicy                                                      *)
(***************************************************************************)
\* Bound of the policy model: the maps are PolSize x PolSize
PolSize == 2

\* The obstacle-free map and the map with the cells next to (0, 0) walls
PolMaps == {MapOfSize(PolSize, {}), MapOfSize(PolSize, NeighboursOf(PolSize, <<0, 0>>))}

\* Mutant of IsClose: 1e-3 taken as an absolute tolerance
IsClose_Absolute(a, b) == Abs(a - b) * 1000 <= Scale

\* np.isclose(a, b, 1e-3): |a - b| <= atol + rtol * |b|, rtol = 1e-3.  The default
\* atol = 1e-8 is below the resolution 1/Scale and adds nothing.
IsClose(a, b) == Abs(a - b) * 1000 <= Abs(b)

\* Mutant of Drifted: the slice taken one short, self._expected_pos[:1]
Drifted_XOnly(expected_pos, x, y) ==
    /\ expected_pos # None
    /\ ~IsClose(expected_pos[1], x)

\* self._expected_pos is not None and not np.isclose(self._expected_pos[:2], [x, y], 1e-3).all()
Drifted(expected_pos, x, y) ==
    /\ expected_pos # None
    /\ ~(IsClose(expected_pos[1], x) /\ IsClose(expected_pos[2], y))

\* Mutant of GenerateGoal: the wall test dropped
GenerateGoal_AnyCell(map) == DOMAIN map.cells

\* What _generate_goal can return: a cell of the map that is no wall
GenerateGoal(map) == NonWall(map)

\* The poses the environment may show on a reset: a cell centre, any heading
ResetPoses(map) == {Centre(c, d) : c \in NonWall(map), d \in Headings}

\* The poses the environment may show after an action from pose p: the pose of any
\* of the three actions or p itself (the action had no effect), its x as it is or
\* off by 1/Scale
SnapX(p, j) == <<(p[1] \div Scale) * Scale + Scale \div 2 + j, p[2], p[3]>>

NextPoses(map, p, step_size, turn_size) ==
    {SnapX(q, j) : q \in {Move(map, p, a, step_size, turn_size) : a \in {TURN_LEFT, TURN_RIGHT, FORWARD}}
                        \cup {p},
                   j \in {0, 1}}

\* No plan held: outside the while loop, and before find_shortest in it
NoPlan == [actions |-> <<>>, path |-> <<>>, nvis |-> 0, last |-> None]

\* __call__ up to its while loop: the reset, the first goal, the drift check.
\* call.goal_in is self._goal on entry, call.sampled the last value
\* _generate_goal returned in this call and call.warned whether the call printed
\* the unexpected-position warning; they are dropped when the call returns.
PolicyCall ==
    /\ pol.at = "idle"
    /\ \E reset \in BOOLEAN :
       \E p \in IF reset \/ ~call.called
                THEN ResetPoses(pol.map)
                ELSE NextPoses(pol.map, call.obs.pose, pol.step_size, pol.turn_size) :
          LET goal0    == IF reset THEN None ELSE pol.goal
              expected == IF reset THEN None ELSE pol.expected_pos
              drift    == Drifted(expected, p[1], p[2])
          IN  \E g1 \in IF goal0 = None THEN GenerateGoal(pol.map) ELSE {goal0} :
              \E g2 \in IF drift THEN GenerateGoal(pol.map) ELSE {g1} :
                 /\ pol' = [pol EXCEPT !.at = "plan", !.goal = g2, !.expected_pos = expected]
                 /\ call' = [called |-> TRUE, obs |-> [pose |-> p, reset |-> reset],
                             ret |-> None, kind |-> "none",
                             goal_in |-> pol.goal,
                             sampled |-> IF drift \/ goal0 = None THEN g2 ELSE None,
                             found |-> NoPlan, warned |-> drift]
    /\ UNCHANGED <<srch, plan, genVars>>

\* What find_shortest returns for the observed pose and the current goal
Planned == find_shortest(pol.map, call.obs.pose, pol.goal, pol.step_size, pol.turn_size)

\* actions, path, nvis = find_shortest(map, (x, y, d), self._goal, self.step_size, self.turn_size)
PolicyPlan ==
    /\ pol.at = "plan"
    /\ pol' = [pol EXCEPT !.at = "planned"]
    /\ call' = [call EXCEPT !.found = Planned]
    /\ UNCHANGED <<srch, plan, genVars>>

\* Mutant of PolicyRandom: self._expected_pos = None forgotten
PolicyRandom_KeepsExpected ==
    /\ pol.at = "planned"
    /\ Len(call.found.actions) > 0
    /\ \E a \in 0..(ActionSize - 1) :
          call' = [call EXCEPT !.ret = a, !.kind = "random", !.goal_in = None,
                               !.sampled = None, !.found = NoPlan, !.warned = FALSE]
    /\ pol' = [pol EXCEPT !.at = "idle"]
    /\ UNCHANGED <<srch, plan, genVars>>

\* len(actions) > 0 and np.random.rand() < self.epsilon: a random action
PolicyRandom ==
    /\ pol.at = "planned"
    /\ Len(call.found.actions) > 0
    /\ \E a \in 0..(ActionSize - 1) :
          call' = [call EXCEPT !.ret = a, !.kind = "random", !.goal_in = None,
                               !.sampled = None, !.found = NoPlan, !.warned = FALSE]
    /\ pol' = [pol EXCEPT !.at = "idle", !.expected_pos = None]
    /\ UNCHANGED <<srch, plan, genVars>>

\* len(actions) > 0 otherwise: the first planned action
PolicyBest ==
    /\ pol.at = "planned"
    /\ Len(call.found.actions) > 0
    /\ call' = [call EXCEPT !.ret = call.found.actions[1], !.kind = "best",
                           !.goal_in = None, !.sampled = None, !.found = NoPlan, !.warned = FALSE]
    /\ pol' = [pol EXCEPT !.at = "idle", !.expected_pos = call.found.path[1]]
    /\ UNCHANGED <<srch, plan, genVars>>

\* len(actions) = 0: self._goal = self._generate_goal(map), and around the loop again
PolicyResample ==
    /\ pol.at = "planned"
    /\ Len(call.found.actions) = 0
    /\ \E g \in GenerateGoal(pol.map) :
          /\ pol' = [pol EXCEPT !.at = "plan", !.goal = g]
          /\ call' = [call EXCEPT !.sampled = g, !.found = NoPlan]
    /\ UNCHANGED <<srch, plan, genVars>>

\* The call record before the first call
NoCall == [called |-> FALSE, obs |-> [pose |-> <<0, 0, 0>>, reset |-> FALSE],
           ret |-> None, kind |-> "none", goal_in |-> None, sampled |-> None,
           found |-> NoPlan, warned |-> FALSE]

InitPolicy ==
    /\ \E map \in PolMaps, step_size \in StepSizes, turn_size \in TurnSizes :
          pol = [at |-> "idle", map |-> map, step_size |-> step_size, turn_size |-> turn_size,
                 goal |-> None, expected_pos |-> None]
    /\ call = NoCall
    /\ srch = PlanIdle /\ plan = PlanIdle
    /\ GenIdle

NextPolicy == PolicyCall \/ PolicyPlan \/ PolicyRandom \/ PolicyBest \/ PolicyResample

SpecPolicy == InitPolicy /\ [][NextPolicy]_vars

(***************************************************************************)
(* Properties of the rollout loop                                          *)
(***************************************************************************)
\* The run ordinals of the episodes that have an observation in `data`
EpsIn(data) == {data[k].ep : k \in 1..Len(data)}

\* The observations of episode e in `data`, in order
RECURSIVE ObsOf(_, _)
ObsOf(data, e) ==
    IF data = <<>> THEN <<>>
    ELSE IF Head(data).ep = e THEN <<Head(data)>> \o ObsOf(Tail(data), e)
    ELSE ObsOf(Tail(data), e)

\* The tokens of a shard name: the step count, and the episode indices of "ep<first>[_<last>]"
NameTokens(name) ==
    LET toks == Split(Split(name, ".")[1], "-")
        ep   == toks[Len(toks) - 1]
        idx  == Split(SubSeq(ep, 3, Len(ep)), "_")
    IN  [steps |-> ToInt(toks[Len(toks)]),
         has_ep |-> Len(ep) >= 2 /\ ep[1] = "e" /\ ep[2] = "p",
         eps |-> [i \in 1..Len(idx) |-> ToInt(idx[i])]]

C1_Step ==
    /\ pc = "finish" =>
          ((Len(shards') = Len(shards) + 1)
              <=> (DatasSteps(Append(datas, env.info)) >= conf.steps_per_npz))
    /\ pc # "finish" => (shards' = shards /\ artifact_dir' = artifact_dir)
    /\ shards' # shards => (Len(shards') = Len(shards) + 1 /\ datas' = <<>>)
    /\ pc' = "episode" => DatasSteps(datas') < conf.steps_per_npz

\* C1: in the rollout loop a shard is written exactly when, after the completed
\* episode is appended, the buffered step count is >= steps_per_npz; nothing is
\* written at any other point; right after a write the buffer is empty; and
\* whenever an episode is running the buffered step count is below the threshold.
C1_FlushExactlyAtThreshold == [][C1_Step]_vars

\* An episode was buffered without a flush after an earlier flush, and a flush of
\* several episodes has happened.
C1_Witness ==
    /\ pc = "episode"
    /\ Len(datas) >= 1
    /\ \E i \in 1..Len(shards) : Cardinality(EpsIn(shards[i].data)) >= 2

\* C2: for every shard written, the step token of its name is the sum of
\* (length - 1) over the episodes it holds, its episode tokens are the global
\* indices (resumed counter + completion order in this run) of its first and last
\* episode, there is one episode token exactly when it holds one episode, and the
\* shards cover the run's episodes consecutively.
C2_NameMatchesFlush ==
    \A i \in 1..Len(shards) :
        LET data == shards[i].data
            tk   == NameTokens(shards[i].name)
            eset == EpsIn(data)
            lo   == data[1].ep
            hi   == data[Len(data)].ep
        IN  /\ tk.has_ep
            /\ eset = lo..hi
            /\ lo = IF i = 1 THEN 0 ELSE shards[i - 1].data[Len(shards[i - 1].data)].ep + 1
            /\ tk.steps = SumSeq([k \in 1..(hi - lo + 1) |-> Len(ObsOf(data, lo + k - 1)) - 1])
            /\ tk.eps[1] = hist.episodes0 + lo
            /\ tk.eps[Len(tk.eps)] = hist.episodes0 + hi
            /\ Len(tk.eps) = (IF Cardinality(eset) = 1 THEN 1 ELSE 2)

\* A resumed run (episode counter starting above 0) that has written a shard of one
\* episode and a shard of several.
C2_Witness ==
    /\ hist.episodes0 > 0
    /\ \E i, j \in 1..Len(shards) :
          /\ Cardinality(EpsIn(shards[i].data)) = 1
          /\ Cardinality(EpsIn(shards[j].data)) >= 2

\* Every episode in a shard is whole: its observations are those of steps 0..n in
\* order, n the number of steps the episode had when the environment ended it.
WholeEpisodes(data) ==
    \A e \in EpsIn(data) :
        /\ e + 1 <= Len(hist.ep_lens)
        /\ LET o == ObsOf(data, e)
           IN  /\ Len(o) = hist.ep_lens[e + 1] + 1
               /\ \A k \in 1..Len(o) : o[k].t = k - 1 /\ (o[k].reset <=> k = 1)

C3_State ==
    /\ \A i \in 1..Len(shards) : WholeEpisodes(shards[i].data)
    /\ \A i, j \in 1..Len(shards) :
          i # j => EpsIn(shards[i].data) \cap EpsIn(shards[j].data) = {}
    /\ (/\ hist.dir0 = {} /\ conf.seed = 0 /\ conf.steps_per_npz = 2
        /\ Len(hist.ep_lens) >= 1 /\ hist.ep_lens[1] = 3 /\ pc \in {"loop", "done"})
       => (/\ Len(shards) >= 1
           /\ shards[1].name = <<"s", "0", "-", "e", "p", "0", "0", "0", "0", "0", "0",
                                 "-", "0", "0", "0", "3", ".", "n", "p", "z">>
           /\ Len(shards[1].data) = 4)

\* C3: a shard is written only at an episode boundary (the environment has
\* reported done), while an episode runs nothing is written even with the
\* threshold already crossed, every shard holds whole episodes only and no episode
\* is in two shards; a first 3-step episode with threshold 2, seed 0 and an empty
\* directory gives one shard s0-ep000000-0003.npz.
C3_WholeEpisodesOnly ==
    [][ /\ shards' # shards => (pc = "finish" /\ env.done)
        /\ C3_State' ]_vars

\* The threshold (2) was crossed in the middle of a first episode of 3 steps, and
\* the shard was written after the episode ended.
C3_Witness ==
    /\ hist.dir0 = {} /\ conf.seed = 0 /\ conf.steps_per_npz = 2
    /\ Len(hist.ep_lens) = 1 /\ hist.ep_lens[1] = 3 /\ pc = "loop"
    /\ Len(shards) = 1

\* What the scheme-named files of a directory hold
RECURSIVE SchemeSteps(_)
SchemeSteps(S) ==
    IF S = {} THEN 0
    ELSE LET f == CHOOSE x \in S : TRUE IN f.steps + SchemeSteps(S \ {f})

RECURSIVE SchemeEpisodes(_)
SchemeEpisodes(S) ==
    IF S = {} THEN 0
    ELSE LET f == CHOOSE x \in S : TRUE IN Max(f.eps, SchemeEpisodes(S \ {f}))

SchemeIn(dir) == {f \in SchemeShards : FName(f.seed, f.eps, f.n, f.steps) \in dir}

\* C4: count_steps over a directory of scheme-named shards, listed in any order,
\* returns the sum of their step tokens and one more than the largest last-episode
\* index; a file whose tokens are not numeric adds nothing and raises no error.
C4_ResumeRoundTrip ==
    pc # "init" =>
        /\ pc # "error"
        /\ hist.steps0 = SchemeSteps(SchemeIn(hist.dir0))
        /\ hist.episodes0 = Max(SchemeEpisodes(SchemeIn(hist.dir0)),
                                IF EpisodeOnlyName \in hist.dir0 THEN 8 ELSE 0)

\* The same with no file lacking a '-' in the directory (the case the code handles)
C4_RoundTripDashed ==
    (pc # "init" /\ NoDashName \notin hist.dir0) =>
        /\ pc # "error"
        /\ hist.steps0 = SchemeSteps(SchemeIn(hist.dir0))
        /\ hist.episodes0 = Max(SchemeEpisodes(SchemeIn(hist.dir0)),
                                IF EpisodeOnlyName \in hist.dir0 THEN 8 ELSE 0)

(***************************************************************************)
(* Properties of find_shortest                                             *)
(***************************************************************************)
AllActions == {TURN_LEFT, TURN_RIGHT, FORWARD}

\* The least number of actions that bring a pose of `frontier` (reached by n
\* actions) into the goal cell, by exhaustive layered search over exact poses;
\* -1 when no sequence does.
RECURSIVE RefDist(_, _, _, _)
RefDist(s, frontier, seen, n) ==
    IF \E p \in frontier : <<IntOf(p[1]), IntOf(p[2])>> = s.goal THEN n
    ELSE LET next == {Move(s.map, p, a, s.step_size, s.turn_size) :
                          p \in frontier, a \in AllActions} \ seen
         IN  IF next = {} THEN -1 ELSE RefDist(s, next, seen \cup next, n + 1)

MinActions(s) == RefDist(s, {s.start}, {s.start}, 0)

\* The pose after applying `actions` in order from p
RECURSIVE Replay(_, _, _)
Replay(s, p, actions) ==
    IF actions = <<>> THEN p
    ELSE Replay(s, Move(s.map, p, Head(actions), s.step_size, s.turn_size), Tail(actions))

StartCell(s) == <<IntOf(s.start[1]), IntOf(s.start[2])>>

\* C5 as stated: on the obstacle-free map, for every reachable goal cell the
\* returned action sequence is non-empty, reaches the goal cell and has the least
\* length of all action sequences that do.
C5_NonEmptyMinimal ==
    (plan.at = "done" /\ srch.map = OpenMap /\ MinActions(srch) >= 0) =>
        /\ Len(plan.actions) > 0
        /\ Len(plan.actions) = MinActions(srch)

\* C5 amended: on the obstacle-free map, for every reachable goal cell the
\* returned action sequence reaches the goal cell and has the least length of all
\* action sequences that do; it is non-empty for every goal cell other than the
\* cell of the start pose.
C5_MinimalPlan ==
    (plan.at = "done" /\ srch.map = OpenMap /\ MinActions(srch) >= 0) =>
        /\ Len(plan.actions) = MinActions(srch)
        /\ srch.goal # StartCell(srch) => Len(plan.actions) > 0
        /\ LET q == Replay(srch, srch.start, plan.actions)
           IN  <<IntOf(q[1]), IntOf(q[2])>> = srch.goal

\* A plan on the obstacle-free map that needs turning and moving
C5_Witness ==
    /\ plan.at = "done" /\ srch.map = OpenMap
    /\ Len(plan.actions) >= 4
    /\ \E i, j \in 1..Len(plan.actions) :
          plan.actions[i] = FORWARD /\ plan.actions[j] # FORWARD

\* C6: when the goal cell is the integer-truncated (x, y) of the start pose, the
\* search succeeds at the first dequeued state (the start pose) and returns an
\* empty action sequence and an empty path, on every map and heading.
C6_AlreadyAtGoal ==
    (plan.at = "done" /\ srch.goal = StartCell(srch)) =>
        /\ plan.actions = <<>>
        /\ plan.path = <<>>
        /\ srch.que_ix = 1
        /\ srch.goal_state = srch.start

\* A finished search with the goal in the start cell, on a map with walls
C6_Witness ==
    /\ plan.at = "done" /\ srch.goal = StartCell(srch)
    /\ srch.map # OpenMap /\ srch.start[3] = 180

\* Every neighbour cell of the start cell inside the map is a wall
WalledIn(s) == \A n \in Neighbours(StartCell(s)) : s.map.cells[n] = WALL

\* No more poses than cell centres times the headings -180, -90, 0, 90, 180
MaxPoses(map) == 5 * map.shape[1] * map.shape[2]

C7_State ==
    /\ Cardinality({KeyOf(srch.que[i]) : i \in 1..Len(srch.que)}) = Len(srch.que)
    /\ srch.que_ix <= Len(srch.que)
    /\ Len(srch.que) <= MaxPoses(srch.map)
    /\ plan.at \in {"search", "done"}
    /\ plan.at = "done" => SearchOver(srch)
    /\ WalledIn(srch) =>
          \A i \in 1..Len(srch.que) :
              /\ srch.que[i][1] = srch.start[1] /\ srch.que[i][2] = srch.start[2]
              /\ Forward(srch.map, srch.que[i], srch.step_size) = srch.que[i]
    /\ (plan.at = "done" /\ WalledIn(srch) /\ srch.goal # StartCell(srch)) =>
          /\ plan.actions = <<>>
          /\ srch.goal_state = None
          /\ srch.que_ix = Len(srch.que)

C7_Progress ==
    /\ C7_State'
    /\ plan.at = "search" => (plan'.at = "done" \/ srch'.que_ix = srch.que_ix + 1)

\* C7: the search ends on every map: each pass of the loop dequeues one more pose,
\* no pose (and no key) is enqueued twice, so the queue stays within the finite
\* number of poses of the map and the loop runs out or returns; from a start cell
\* walled in on all sides every forward move leaves the pose unchanged, nothing
\* but turns of the start pose is enqueued, and the search ends with an empty
\* action sequence for every goal outside the start cell.
C7_Terminates == C7_State /\ [][C7_Progress]_vars

\* A finished search from a walled-in start cell, goal elsewhere, all four headings tried
C7_Witness ==
    /\ plan.at = "done" /\ WalledIn(srch) /\ srch.goal # StartCell(srch)
    /\ Len(srch.que) >= 4

\* C9: every key the planner stores is a fixed point of the key function: applying
\* the key function to a key gives the same key.
C9_KeyIdempotent ==
    plan.at # "off" => \A k \in srch.visited : KeyOf(k) = k

\* Keys that differ from the poses they were made from (the rounding did something)
C9_Witness ==
    /\ plan.at = "done"
    /\ Cardinality(srch.visited) >= 8
    /\ \A i \in 1..Len(srch.que) : KeyOf(srch.que[i]) # srch.que[i]

\* C10: every pose the planner enqueues or returns has its heading in (-180, 180],
\* and turn-left and turn-right undo each other on the headings reached.
C10_HeadingHalfOpen ==
    plan.at # "off" =>
        /\ \A i \in 1..Len(srch.que) : -180 < srch.que[i][3] /\ srch.que[i][3] <= 180
        /\ plan.at = "done" =>
              /\ \A i \in 1..Len(plan.path) : -180 < plan.path[i][3] /\ plan.path[i][3] <= 180
              /\ \A i \in 1..Len(srch.que) :
                    LET d == srch.que[i][3]
                    IN  /\ TurnLeft(TurnRight(d, srch.turn_size), srch.turn_size) = d
                        /\ TurnRight(TurnLeft(d, srch.turn_size), srch.turn_size) = d

\* What the code does keep: headings in the closed interval [-180, 180]
C10_HeadingClosed ==
    plan.at # "off" =>
        \A i \in 1..Len(srch.que) : -180 <= srch.que[i][3] /\ srch.que[i][3] <= 180

(***************************************************************************)
(* Properties of the policy                                                *)
(***************************************************************************)
\* The call in progress is no reset, the call before it left an expected pose, and
\* the observed x or y is further from it than 1e-3 of the observed value
DriftSeen ==
    /\ pol.at \in {"plan", "planned"}
    /\ ~call.obs.reset
    /\ pol.expected_pos # None
    /\ \/ Abs(pol.expected_pos[1] - call.obs.pose[1]) * 1000 > Abs(call.obs.pose[1])
       \/ Abs(pol.expected_pos[2] - call.obs.pose[2]) * 1000 > Abs(call.obs.pose[2])

\* The goal of a call that saw drift is one _generate_goal returned in this call
C8_State ==
    DriftSeen =>
        /\ call.sampled # None
        /\ pol.goal = call.sampled
        /\ pol.goal \in NonWall(pol.map)

\* A call that saw drift plans from the observed pose to the sampled goal, and a
\* best action it returns is the first action of that plan
C8_Step ==
    /\ C8_State'
    /\ (DriftSeen /\ pol.at = "plan") =>
          /\ pol'.at = "planned"
          /\ call'.found = find_shortest(pol.map, call.obs.pose, call.sampled,
                                         pol.step_size, pol.turn_size)
    /\ (DriftSeen /\ pol.at = "planned") =>
          /\ pol'.at = "plan" => Len(call.found.actions) = 0
          /\ (pol'.at = "idle" /\ call'.kind = "best") =>
                /\ call'.ret = call.found.actions[1]
                /\ pol'.expected_pos = call.found.path[1]
                /\ call'.obs = call.obs

\* C8: when the call before left an expected pose and the position observed on a
\* call that is no reset is not within tolerance of it, the policy replaces its
\* goal by a freshly sampled one and plans from the observed pose to that goal
\* within the same call.
C8_DriftReplans == C8_State /\ [][C8_Step]_vars

\* A call that saw drift, took a goal other than the one it entered with and found
\* a plan to it from the observed pose
C8_Witness ==
    /\ DriftSeen /\ pol.at = "planned"
    /\ call.goal_in # None /\ pol.goal # call.goal_in
    /\ Len(call.found.actions) > 0

(***************************************************************************)
(* The wrappers driven alone: reset and step in any order                  *)
(***************************************************************************)
\* Bound of the wrapper model: the resets of one behaviour
MaxResets == 2

\* The caps the wrapped environments are built with: ActionRewardResetWrapper(env, env_max_steps)
WrapConfs == {[env_max_steps |-> m] : m \in 1..EnvMaxSteps}

\* hist.n: the resets so far; hist.acts, hist.terms: the actions stepped with since
\* the last reset, and whether the inner environment genuinely terminated on each
NoWrapHist == [n |-> 0, acts |-> <<>>, terms |-> <<>>]

\* env.reset() of the wrapped environment, at any time
WrapReset ==
    /\ pc = "wrap"
    /\ hist.n < MaxResets
    /\ env' = EnvReset(hist.n + 1)
    /\ hist' = [n |-> hist.n + 1, acts |-> <<>>, terms |-> <<>>]
    /\ UNCHANGED <<pc, conf, artifact_dir, steps, episodes, datas, epsteps, shards,
                   srch, plan, pol, call>>

\* env.step(action) of the wrapped environment.  The inner environment, made with
\* max_steps = env_max_steps, reports done when it terminates and at its cap.
WrapStep ==
    /\ pc = "wrap"
    /\ hist.n > 0 /\ ~env.done
    /\ \E action \in 0..(ActionSize - 1), terminated \in BOOLEAN :
          LET done == terminated \/ env.epstep + 1 >= conf.env_max_steps
          IN  /\ env' = EnvStep(env, action, done, conf.env_max_steps)
              /\ hist' = [hist EXCEPT !.acts = Append(@, action),
                                      !.terms = Append(@, terminated)]
    /\ UNCHANGED <<pc, conf, artifact_dir, steps, episodes, datas, epsteps, shards,
                   srch, plan, pol, call>>

InitWrap ==
    /\ pc = "wrap" /\ conf \in WrapConfs
    /\ env = NoEnv /\ hist = NoWrapHist
    /\ artifact_dir = {} /\ steps = 0 /\ episodes = 0 /\ datas = <<>> /\ epsteps = 0
    /\ shards = <<>>
    /\ srch = PlanIdle /\ plan = PlanIdle /\ pol = PolIdle /\ call = PolIdle

NextWrap == WrapReset \/ WrapStep

SpecWrap == InitWrap /\ [][NextWrap]_vars

(***************************************************************************)
(* Properties of the wrappers                                              *)
(***************************************************************************)
\* C11: after reset and k steps of which the k-th reports done, info['episode'] has
\* k + 1 entries, 'reset' true at index 0 and false later, an all-zero action at
\* index 0 and the one-hot of the i-th action at index i, and holds observations
\* of this episode only; before the done step there is no info['episode'].
C11_EpisodeAssembled ==
    pc = "wrap" =>
        /\ ~env.done => env.info = None
        /\ env.done =>
              LET e == env.info
                  k == Len(hist.acts)
              IN  /\ k >= 1 /\ Len(e) = k + 1
                  /\ e[1].reset /\ \A a \in 0..(ActionSize - 1) : e[1].action[a] = 0
                  /\ \A i \in 1..k :
                        /\ ~e[i + 1].reset
                        /\ \A a \in 0..(ActionSize - 1) :
                              e[i + 1].action[a] = IF a = hist.acts[i] THEN 1 ELSE 0
                  /\ \A i \in 1..(k + 1) : e[i].ep = hist.n /\ e[i].t = i - 1

\* The second episode done after two steps with different actions, the first
\* one having been stepped as well
C11_Witness ==
    /\ pc = "wrap" /\ env.done /\ hist.n = 2
    /\ Len(hist.acts) = 2 /\ hist.acts[1] # hist.acts[2]

\* C12: in every recorded observation 'terminal' is true exactly when the
\* environment genuinely terminated on that step, at every step index from 1 up
\* to and including the cap.
C12_TerminalIffGenuine ==
    pc = "wrap" =>
        \A i \in 1..Len(hist.terms) : env.episode[i + 1].terminal = hist.terms[i]

\* What the code keeps: 'terminal' is true exactly on genuine termination below
\* the cap, and false on every step at the cap
C12_TerminalBelowCap ==
    pc = "wrap" =>
        \A i \in 1..Len(hist.terms) :
           env.episode[i + 1].terminal = (hist.terms[i] /\ i < conf.env_max_steps)

(***************************************************************************)
(* find_shortest with steps shorter than a cell                            *)
(***************************************************************************)
\* step_size 0.05 and 0.25
FineSteps == {Scale \div 20, Scale \div 4}

\* Start poses off the cell centre: (0.52, 0.5) in cell (0, 0), every heading
FineStarts == {<<Scale \div 2 + Scale \div 50, Scale \div 2, d>> : d \in Headings}

InitFine ==
    /\ \E step_size \in FineSteps, turn_size \in TurnSizes :
         \E start \in FineStarts, goal \in CellsOf(PolSize) :
            srch = SearchInit(MapOfSize(PolSize, {}), start, goal, step_size, turn_size)
    /\ plan = [at |-> "search"]
    /\ pol = PolIdle /\ call = PolIdle
    /\ GenIdle

SpecFine == InitFine /\ [][NextPlan]_vars

(***************************************************************************)
(* Properties of the key                                                   *)
(***************************************************************************)
\* round(v, 5) of a value held in units of 1/unit
RoundDecimals5(v, unit) == (RoundHalfEven(v * 100000, unit) * unit) \div 100000

\* A pose rounded to 5 decimal digits
Decimals5(p) == <<RoundDecimals5(p[1], Scale), RoundDecimals5(p[2], Scale), RoundDecimals5(p[3], 1)>>

\* A pose rounded to multiples of 1/5: the number of fifths in x, y and heading
Fifths(p) == <<RoundHalfEven(p[1] * 5, Scale), RoundHalfEven(p[2] * 5, Scale), RoundHalfEven(p[3] * 5, 1)>>

\* The poses dequeued and expanded so far (a pose in the goal cell is not expanded)
Expanded == {i \in 1..srch.que_ix : ~AtGoal(srch.que[i], srch.goal)}

\* The poses the three actions lead to from the expanded poses
Successors ==
    {Move(srch.map, srch.que[i], a, srch.step_size, srch.turn_size) :
        i \in Expanded, a \in {TURN_LEFT, TURN_RIGHT, FORWARD}}

\* C13: two poses are the same search state exactly when x, y and heading agree
\* after rounding to 5 decimal digits: no two enqueued poses agree so, and every
\* pose an action leads to from an expanded pose is enqueued unless it agrees so
\* with a pose enqueued already.
C13_KeyFiveDecimals ==
    plan.at # "off" =>
        LET enqueued == {Decimals5(srch.que[j]) : j \in 1..Len(srch.que)}
        IN  /\ Cardinality(enqueued) = Len(srch.que)
            /\ \A q \in Successors : Decimals5(q) \in enqueued

\* C13 as the code has it: two poses are the same search state exactly when x, y
\* and heading agree after rounding to the nearest multiple of 1/5; of the poses
\* that agree so only the first is enqueued, every pose an action leads to from
\* an expanded pose has a pose agreeing with it in the queue, and the visited keys
\* are the enqueued poses so rounded.
C13_KeyFifths ==
    plan.at # "off" =>
        LET enqueued == {Fifths(srch.que[j]) : j \in 1..Len(srch.que)}
        IN  /\ Cardinality(enqueued) = Len(srch.que)
            /\ \A q \in Successors : Fifths(q) \in enqueued
            /\ srch.visited = {<<(f[1] * Scale) \div 5, (f[2] * Scale) \div 5, f[3] \div 5>> :
                                  f \in enqueued}

\* A finished search in which a forward step was dropped because it stayed within
\* the same fifth, and another was enqueued
C13_Witness ==
    /\ plan.at = "done"
    /\ \E q \in Successors :
          /\ \A j \in 1..Len(srch.que) : srch.que[j] # q
          /\ \E i \in Expanded : q[3] = srch.que[i][3] /\ q # srch.que[i]
                                  /\ Fifths(q) = Fifths(srch.que[i])
    /\ \E j \in 2..Len(srch.que) : srch.que[j][3] = srch.que[1][3]

(***************************************************************************)
(* Properties of the returned path and of the visited set                  *)
(***************************************************************************)
\* C14: a successful search returns actions and path of equal length in
\* chronological order: path[0] is the pose actions[0] leads to from the start
\* pose, path[i] the pose actions[i] leads to from path[i-1] under the planner's
\* moves (a forward move into a wall stays), the start pose is not in the path,
\* the last pose lies in the goal cell, and the parent walk ends at the start pose.
C14_PathFollowsActions ==
    (plan.at = "done" /\ srch.goal_state # None) =>
        LET n == Len(plan.actions)
            before(i) == IF i = 1 THEN srch.start ELSE plan.path[i - 1]
        IN  /\ Len(plan.path) = n
            /\ \A i \in 1..n :
                  /\ plan.path[i] = Move(srch.map, before(i), plan.actions[i],
                                         srch.step_size, srch.turn_size)
                  /\ plan.path[i] # srch.start
            /\ <<IntOf(before(n + 1)[1]), IntOf(before(n + 1)[2])>> = srch.goal
            /\ plan.last = srch.start

\* A path of turns and forward moves on a map with walls
C14_Witness ==
    /\ plan.at = "done" /\ srch.goal_state # None /\ srch.map # OpenMap
    /\ Len(plan.actions) >= 3
    /\ plan.actions[1] # FORWARD /\ plan.actions[Len(plan.actions)] = FORWARD

\* C15: during a search every key is enqueued at most once, whichever action
\* reaches it: the enqueued poses are as many as the visited keys and no two of
\* them round to the same multiples of 1/5; the visited count returned is the
\* number of distinct keys enqueued.
C15_KeyEnqueuedOnce ==
    plan.at # "off" =>
        LET enqueued == {Fifths(srch.que[j]) : j \in 1..Len(srch.que)}
        IN  /\ Len(srch.que) = Cardinality(srch.visited)
            /\ Cardinality(enqueued) = Len(srch.que)
            /\ plan.at = "done" => plan.nvis = Cardinality(enqueued)

\* A finished search in which a pose was reached a second time by another action
\* and not enqueued again
C15_Witness ==
    /\ plan.at = "done" /\ plan.nvis >= 8
    /\ \E i, j \in Expanded :
          /\ i < j
          /\ Move(srch.map, srch.que[i], TURN_LEFT, srch.step_size, srch.turn_size)
               = Move(srch.map, srch.que[j], TURN_RIGHT, srch.step_size, srch.turn_size)

(***************************************************************************)
(* Properties of the drift check                                           *)
(***************************************************************************)
\* A call that is no reset has just entered holding the expected pose of the call
\* before it and observes exactly the expected position
SamePositionSeen ==
    /\ pol.at = "plan" /\ call.found = NoPlan
    /\ ~call.obs.reset
    /\ pol.expected_pos # None
    /\ call.obs.pose[1] = pol.expected_pos[1]
    /\ call.obs.pose[2] = pol.expected_pos[2]

\* C16: the drift check compares the whole pose: when the call before returned a
\* planned turn and the observation shows the expected position but another
\* heading than the expected one, the policy resamples its goal.
C16_HeadingDrift ==
    (SamePositionSeen /\ call.obs.pose[3] # pol.expected_pos[3]) => call.sampled # None

\* The step that enters a call which is no reset, with an expected pose held
C16_Step ==
    (pol.at = "idle" /\ pol'.at = "plan" /\ ~call'.obs.reset /\ pol.expected_pos # None) =>
        LET x == call'.obs.pose[1]
            y == call'.obs.pose[2]
            apart == \/ Abs(pol.expected_pos[1] - x) * 1000 > Abs(x)
                     \/ Abs(pol.expected_pos[2] - y) * 1000 > Abs(y)
        IN  /\ pol'.expected_pos = pol.expected_pos
            /\ apart => (call'.sampled # None /\ pol'.goal = call'.sampled)
            /\ ~apart => (call'.sampled = None /\ pol'.goal = pol.goal)

\* C16 as the code has it: the drift check compares the position (x, y) alone: the
\* goal is resampled exactly when the observed x or y is not close to the
\* expected one, and is kept when only the heading differs from the expected one.
C16_PositionOnly == [][C16_Step]_vars

\* The expected position observed with another heading than expected, and the goal kept
C16_Witness ==
    /\ SamePositionSeen /\ call.obs.pose[3] # pol.expected_pos[3]
    /\ call.sampled = None /\ pol.goal = call.goal_in

\* The step that enters a call: no warning and no expected pose in use on a
\* reset, on the first call and after a call that returned a random action
C17_Enter ==
    (pol.at = "idle" /\ pol'.at = "plan") =>
        /\ (call'.obs.reset \/ ~call.called \/ call.kind = "random") =>
              (~call'.warned /\ pol'.expected_pos = None)
        /\ call'.warned => (call.kind = "best" /\ ~call'.obs.reset /\ pol.expected_pos # None)

\* The step that returns from a call: the expected pose is empty after a random
\* action and the pose the returned action leads to after a planned one
C17_Return ==
    (pol.at = "planned" /\ pol'.at = "idle") =>
        /\ call'.kind \in {"random", "best"} /\ call'.ret \in 0..(ActionSize - 1)
        /\ call'.kind = "random" => pol'.expected_pos = None
        /\ call'.kind = "best" =>
              pol'.expected_pos = Move(pol.map, call.obs.pose, call'.ret,
                                       pol.step_size, pol.turn_size)

\* C17: the drift check uses an expected pose only if the call before returned
\* the planned action and the observation is no reset: after a random action, on
\* the first call and on a reset no drift is reported whatever the pose observed;
\* after every returning call the expected pose is empty (random action) or the
\* planner's pose of the returned action.
C17_ExpectedPoseLifecycle == [][C17_Enter /\ C17_Return]_vars

\* A call that is no reset entered after a random action: no expected pose held,
\* no warning, the goal kept
C17_Witness ==
    /\ pol.at = "plan" /\ call.found = NoPlan
    /\ ~call.obs.reset /\ ~call.warned /\ pol.expected_pos = None
    /\ call.goal_in # None /\ pol.goal = call.goal_in
    /\ call.kind = "none" /\ call.ret = None

(***************************************************************************)
(* Properties of the retry loop                                            *)
(***************************************************************************)
\* The call in progress has a goal to draw with a non-empty plan from the observed pose
CanReturn ==
    \E g \in NonWall(pol.map) :
       Len(find_shortest(pol.map, call.obs.pose, g, pol.step_size, pol.turn_size).actions) > 0

\* The forward move from the observed position is blocked in every heading
Stuck ==
    \A d \in Headings :
       LET p == <<call.obs.pose[1], call.obs.pose[2], d>>
       IN  Forward(pol.map, p, pol.step_size) = p

C18_Step ==
    /\ (pol.at = "planned" /\ pol'.at = "idle") =>
          (Len(call.found.actions) > 0 /\ call'.ret \in 0..(ActionSize - 1))
    /\ (pol.at = "planned" /\ Len(call.found.actions) = 0) =>
          /\ pol'.at = "plan" /\ call'.obs = call.obs
          /\ pol'.goal \in DOMAIN pol.map.cells /\ pol.map.cells[pol'.goal] # WALL
          /\ call'.sampled = pol'.goal
    /\ (pol.at \in {"plan", "planned"} /\ Stuck) => pol'.at \in {"plan", "planned"}

Restart ==
    /\ pc \in {"loop", "done"}
    /\ pc' = "init"
    /\ steps' = 0 /\ episodes' = 0 /\ datas' = <<>> /\ epsteps' = 0
    /\ env' = NoEnv /\ hist' = NoHist
    /\ UNCHANGED <<conf, artifact_dir, shards, srch, plan, pol, call>>

NextRuns == Startup \/ BeginEpisode \/ RolloutStep \/ EndEpisode \/ Finish \/ Restart

\* The runs share seed 0; the directory is empty at first, or holds a file with an
\* episode token only, or a shard of seed 12
RunConfs == {c \in Confs : c.seed = 0 /\ c.num_steps = NumSteps - 4}

RunDirs == {{}, {EpisodeOnlyName}, {FName(12, 2, 1, 1)}}

InitRuns ==
    /\ pc = "init"
    /\ conf \in RunConfs
    /\ artifact_dir \in RunDirs
    /\ steps = 0 /\ episodes = 0 /\ datas = <<>> /\ epsteps = 0
    /\ env = NoEnv /\ shards = <<>> /\ hist = NoHist
    /\ srch = PlanIdle /\ plan = PlanIdle
    /\ pol = PolIdle /\ call = PolIdle

SpecRuns == InitRuns /\ [][NextRuns]_vars

(***************************************************************************)
(* Properties of repeated runs                                             *)
(***************************************************************************)
\* The first and the last episode index in a shard name
FirstEp(name) == NameTokens(name).eps[1]
LastEp(name)  == LET e == NameTokens(name).eps IN e[Len(e)]

\* The episode count the first run starts from, by what the directory held then
FirstIndex ==
    IF EpisodeOnlyName \in artifact_dir THEN 8
    ELSE IF FName(12, 2, 1, 1) \in artifact_dir THEN 2 ELSE 0

C19_State ==
    /\ \A i \in 1..Len(shards) :
          /\ FirstEp(shards[i].name) <= LastEp(shards[i].name)
          /\ shards[i].name \in artifact_dir
          /\ FirstEp(shards[i].name) =
                IF i = 1 THEN FirstIndex ELSE LastEp(shards[i - 1].name) + 1
    /\ \A i, j \in 1..Len(shards) :
          i # j => /\ shards[i].name # shards[j].name
                   /\ (FirstEp(shards[i].name)..LastEp(shards[i].name))
                         \cap (FirstEp(shards[j].name)..LastEp(shards[j].name)) = {}

C19_Step ==
    shards' # shards =>
          /\ Len(shards') = Len(shards) + 1
          /\ shards'[Len(shards')].name \notin artifact_dir
          /\ Cardinality(artifact_dir') = Cardinality(artifact_dir) + 1

\* C19: over any sequence of runs with the same seed and artifact directory, each
\* started by count_steps and stopped at any episode boundary with its buffer
\* lost, the episode ranges of all shards ever written are pairwise disjoint and
\* cover a contiguous range from the first index on, and no flush writes a file
\* name the directory already holds.
C19_RunsNeverOverlap == []C19_State /\ [][C19_Step]_vars

\* A later run has written a shard that follows a shard of several episodes
\* written by an earlier run
C19_Witness ==
    /\ Len(shards) >= 2 /\ hist.episodes0 > FirstIndex
    /\ FirstEp(shards[1].name) < LastEp(shards[1].name)
    /\ LastEp(shards[1].name) < hist.episodes0
    /\ FirstEp(shards[Len(shards)].name) >= hist.episodes0

(***************************************************************************)
(* Properties of the step counter                                          *)
(***************************************************************************)
\* The steps held in the buffer: one less than the length of each episode
Buffered == SumSeq([i \in 1..Len(datas) |-> Len(datas[i]) - 1])

\* The step tokens of the shards this run has written, added up
Written == SumSeq([i \in 1..Len(shards) |-> NameTokens(shards[i].name).steps])

\* C20: at every episode boundary of a run the steps counter is the step count
\* resumed at startup plus the step counts of the shards this run has written plus
\* the steps held in the buffer; nothing is flushed on exit, so when the run ends a
\* scan of the directory gives the counter less the buffered steps, which are
\* fewer than steps_per_npz.
C20_StepsAccounted ==
    pc \in {"loop", "done"} =>
        /\ steps = hist.steps0 + Written + Buffered
        /\ Buffered < conf.steps_per_npz
        /\ pc = "done" =>
              LET again == count_steps(Sorted(artifact_dir))
              IN  ~again.error /\ again.steps = steps - Buffered

\* A resumed run that has written a shard and ends with steps in its buffer
C20_Witness ==
    /\ pc = "done" /\ hist.steps0 > 0
    /\ Len(shards) >= 1 /\ Buffered >= 2 /\ Len(datas) >= 2

(***************************************************************************)
(* The run loop of a generator that may hold a learned model               *)
(***************************************************************************)
\* main started again on the same directory after it is done
Rerun == pc = "done" /\ Restart

NextLoop ==
    \/ Startup \/ BeginReload \/ CheckpointFound \/ CheckpointMissing
    \/ BeginEpisode \/ RolloutStep \/ EndEpisode \/ Finish \/ Rerun

\* Seed 0 and the smaller target, with and without a model; the directory is empty
\* at first or holds one shard of one step
LoopConfs == [seed : {0}, num_steps : {NumSteps - 4}, env_max_steps : {EnvMaxSteps},
              steps_per_npz : 1..MaxStepsPerNpz, model : BOOLEAN]

LoopDirs == {{}, {FName(0, 1, 1, 1)}}

InitLoop ==
    /\ pc = "init"
    /\ conf \in LoopConfs
    /\ artifact_dir \in LoopDirs
    /\ steps = 0 /\ episodes = 0 /\ datas = <<>> /\ epsteps = 0
    /\ env = NoEnv /\ shards = <<>> /\ hist = NoHist
    /\ srch = PlanIdle /\ plan = PlanIdle
    /\ pol = PolIdle /\ call = PolIdle

\* Every statement of the run loop runs once control reaches it: the process is
\* not stopped inside the loop.  Nothing makes a checkpoint appear (that is the
\* trainer's doing), and nothing makes main start again.
LoopFairness ==
    /\ WF_vars(BeginReload \/ BeginEpisode)
    /\ WF_vars(RolloutStep) /\ WF_vars(EndEpisode) /\ WF_vars(Finish)

SpecLoop == InitLoop /\ [][NextLoop]_vars /\ LoopFairness

(***************************************************************************)
(* Properties of the run loop                                              *)
(***************************************************************************)
\* The run is at an episode boundary, about to test `steps < num_steps` or past it
AtBoundary == pc \in {"loop", "ready"}

Terminated == pc = "done" /\ steps >= conf.num_steps

\* C21 as stated, refuted: from every episode boundary the run eventually
\* terminates with steps >= num_steps.  (Every episode of the model ends after at
\* least one step, since the step cap ends it.)  A generator with a model that
\* finds no checkpoint stays in the wait of the reload for ever.
C21_RunTerminates == AtBoundary ~> Terminated

\* A run that resumed with steps >= num_steps has executed no episode and written
\* no file; a run that is done has steps >= num_steps; only a generator with a
\* model waits for a checkpoint
C21_State ==
    /\ (pc \notin {"init", "error"} /\ hist.steps0 >= conf.num_steps)
          => /\ pc \in {"loop", "done"}
             /\ hist.ep_lens = <<>> /\ artifact_dir = hist.dir0
             /\ steps = hist.steps0 /\ episodes = hist.episodes0 /\ datas = <<>>
    /\ (pc = "done") => steps >= conf.num_steps
    /\ (pc \in {"reload", "ready"}) => (conf.model /\ steps < conf.num_steps)

\* The loop condition sends the run into an episode (through the reload when one
\* is due) exactly when steps < num_steps, and to the end otherwise; an episode
\* starts only below the target; an episode in progress goes on, whatever steps
\* is, until the environment reports done
C21_Step ==
    /\ (pc = "loop" /\ pc' # "loop")
          => IF steps < conf.num_steps THEN pc' \in {"episode", "reload"}
                                       ELSE pc' \in {"done", "init"}
    /\ (pc # "episode" /\ pc' = "episode") => (AtBoundary /\ steps < conf.num_steps)
    /\ (pc = "episode" /\ pc' # "episode")
          => /\ pc' = "finish" /\ env'.done
             /\ steps' = steps + 1 /\ epsteps' >= 1
    /\ (pc = "episode" /\ pc' = "episode") => (~env'.done /\ steps' = steps + 1)

\* C21, amended: the run loop starts a new episode if and only if steps is below
\* num_steps at an episode boundary; an episode in progress is never cut short
\* because the target was reached; a run whose resumed step count is already
\* >= num_steps executes no episode and writes no shard; and from every episode
\* boundary the run eventually either terminates with steps >= num_steps or waits
\* for a model checkpoint, which only a generator with a learned model does.
C21_StartsBelowTarget ==
    /\ []C21_State
    /\ [][C21_Step]_vars
    /\ (AtBoundary ~> (Terminated \/ pc = "reload"))

\* A generator with a model whose last episode began below the target and ran
\* past it, done with more steps than asked for
C21_Witness ==
    /\ pc = "done" /\ conf.model /\ hist.model_step # 0
    /\ Len(hist.ep_lens) >= 2
    /\ steps > conf.num_steps
    /\ steps - hist.ep_lens[Len(hist.ep_lens)] < conf.num_steps

=============================================================================
